---- MODULE Spec2Model ----
(***************************************************************************)
(* Workspace event backfill (scripts/backfill-workspace-events.py).        *)
(*                                                                         *)
(* One process of the script is one "run": main() builds the backfill      *)
(* object, run_backfill() walks the repositories returned by the directory *)
(* lookup, get_repo_events() pages through the upstream feed of one        *)
(* repository, insert_event() upserts one event and backfill_repository()  *)
(* commits or rolls back after every event.                                *)
(*                                                                         *)
(* The environment is the upstream feed (its records are fixed per         *)
(* repository, its transport may fail on every request), the database      *)
(* (every statement, commit and rollback may raise) and the operator       *)
(* (one KeyboardInterrupt per run, delivered at any point).                *)
(*                                                                         *)
(* Pull request review (.github/actions/continue-review/continue_review.py)*)
(* is a second program with its own variables and its own specification,   *)
(* ReviewSpec: one process validates its environment, posts a progress     *)
(* comment on the pull request, collects the diff, asks for a review and   *)
(* replaces the comment.  Every call to the GitHub API may raise.          *)
(***************************************************************************)
EXTENDS Integers, Sequences, FiniteSets, TLC

VARIABLES
    pc,              \* position of the process in main / run_backfill / its callees
    run,             \* number of the current process (1 = first run of the script)
    repositories,    \* result of get_workspace_repositories (the same in every run)
    feed,            \* feed[r]: the upstream records of repository r, newest first
    i,               \* run_backfill: 1-based index of the repository (enumerate)
    page,            \* get_repo_events: page
    events,          \* get_repo_events: events / backfill_repository: events
    k,               \* backfill_repository: 1-based index of the event being written
    inserted_count,  \* backfill_repository: inserted_count
    failed_count,    \* backfill_repository: failed_count
    stats,           \* self.stats
    table,           \* github_events_cache, committed rows
    txn,             \* github_events_cache as seen by the open transaction of pg_conn
    interrupted_at,  \* pc at which the KeyboardInterrupt was raised ("none" before)
    printed,         \* the statistics block of run_backfill, once printed ("none" before)
    exit_code,       \* outcome of the process ("none" while it runs)
    left_by,         \* the statement by which get_repo_events left its loop
    past,            \* what went wrong so far, in this process or an earlier one:
                     \* "clean" (nothing), "write_failed" (only writes failed) or
                     \* "lossy" (a request failed or a process was cut short)
    response,        \* get_repo_events: response, the answer to the last request
    retried,         \* a 403 of this call of get_repo_events was waited for and retried
    commits,         \* number of pg_conn.commit() calls of this process that returned
    \* continue_review.py
    review_pc,       \* position of the review process ("off": not this program)
    env_set,         \* the four required environment variables are all set
    pr_input,        \* what the GitHub context holds as the pull request number
    comments,        \* the issue comments of the pull request, oldest first
    existing_comment,\* index in comments of existing_comment; 0 is None, -1 not bound yet
    files,           \* pr.get_files(): for each file whether file.patch is set
    diff_content,    \* diff_content: the indexes of the files that have a patch
    progress_posted, \* this process wrote the progress body to existing_comment
    api_failed,      \* a call to the GitHub API raised in this process
    review_exit      \* exit status of the review process ("none" while it runs)

review_vars == << review_pc, env_set, pr_input, comments, existing_comment, files,
                  diff_content, progress_posted, api_failed, review_exit >>

vars == << pc, run, repositories, feed, i, page, events, k, inserted_count,
           failed_count, stats, table, txn, interrupted_at, printed, exit_code,
           left_by, past, response, retried, commits, review_vars >>

----------------------------------------------------------------------------
(* Bounds of the model *)

\* number of processes of the script run one after the other
MaxRuns == 2
\* number of repositories the directory lookup returns at most
MaxRepos == 2
\* number of records in the feed of one repository at most
MaxFeed == 2
\* number of records the upstream server puts on one page
PageSize == 1
\* the counters of self.stats saturate here (Python integers are unbounded)
MaxCount == 6

----------------------------------------------------------------------------
(* Program constants *)

\* while page <= 10
MaxPage == 10
\* self.backfill_days
backfill_days == 30
\* if wait_time < 3600
MaxWait == 3600
\* reset_time - int(time.time()) + 60
ResetMargin == 60

AllowedTypes == {"WatchEvent", "ForkEvent", "PullRequestEvent", "IssuesEvent", "StarEvent"}

UpdateMarker == "; Updated from workspace backfill"

----------------------------------------------------------------------------
(* Time: the clock of run n, in days for created_at and the cutoff *)

\* the date of the first run, in days
FirstDay == 100

Now(n) == FirstDay + n

\* cutoff_date = datetime.now(timezone.utc) - timedelta(days=days_back)
CutoffDate(n, days_back) == Now(n) - days_back

----------------------------------------------------------------------------
(* Upstream records.  repo.name is a sequence of characters, so that the   *)
(* split on "/" is computed and not assumed.                               *)

NoPayload == [x \in {} |-> "none"]

RawEvent(id, ty, t, login, nm, has, pl) ==
    [ id |-> id, type |-> ty, created_at |-> t,
      actor |-> [id |-> login, login |-> login, avatar_url |-> "avatar"],
      repo |-> [id |-> "repo", name |-> nm, url |-> "url"],
      public |-> TRUE, has_payload |-> has, payload |-> pl ]

\* an allowed-type record inside the window
EvStar  == RawEvent("e1", "WatchEvent", 95, "alice", <<"o", "/", "r">>, TRUE,
                    [action |-> "started"])
\* the key of EvStar with every other column different, and two "/" in repo.name
EvTwin  == RawEvent("e1", "ForkEvent", 95, "bob", <<"o", "/", "r", "/", "x">>, TRUE,
                    [forkee |-> "fork"])
\* a record inside the window whose type is not collected
EvPush  == RawEvent("e2", "PushEvent", 95, "alice", <<"o", "/", "r">>, TRUE,
                    [ref |-> "main"])
\* a record older than the cutoff
EvOld   == RawEvent("e3", "WatchEvent", 10, "alice", <<"o", "/", "r">>, FALSE,
                    NoPayload)
\* an allowed-type record inside the window with no "/" in repo.name
EvBad   == RawEvent("e4", "StarEvent", 95, "bob", <<"o", "r">>, FALSE, NoPayload)

RawEvents == {EvStar, EvTwin, EvPush, EvOld, EvBad}

RECURSIVE SeqsUpTo(_, _)
SeqsUpTo(S, n) ==
    IF n = 0 THEN { << >> }
    ELSE LET shorter == SeqsUpTo(S, n - 1)
         IN  shorter \cup { Append(s, x) : s \in shorter, x \in S }

Feeds == SeqsUpTo(RawEvents, MaxFeed)

\* feeds with more pages than get_repo_events asks for, every record inside the
\* window: collected records only, or collected records from page 11 on only
LongLen == MaxPage * PageSize + 2

LongFeeds ==
    { [j \in 1..LongLen |-> EvStar],
      [j \in 1..LongLen |-> IF j <= MaxPage * PageSize THEN EvPush ELSE EvStar] }

RepoNames == {"r1", "r2", "r3", "r4"}

\* the directory lookup returns the first n of the workspace's repositories
RepoList(n) == [j \in 1..n |-> <<"r1", "r2", "r3", "r4">>[j]]

----------------------------------------------------------------------------
(* insert_event: the pure part *)

\* position of the first "/" in s, 0 when there is none
RECURSIVE FirstSlash(_, _)
FirstSlash(s, j) ==
    IF j > Len(s) THEN 0
    ELSE IF s[j] = "/" THEN j
    ELSE FirstSlash(s, j + 1)

\* mutant of SplitOnce: owner, _, name = repo_full_name.partition("/")
SplitPartition(s) ==
    LET at == FirstSlash(s, 1)
    IN  IF at = 0 THEN << s, << >> >>
        ELSE << SubSeq(s, 1, at - 1), SubSeq(s, at + 1, Len(s)) >>

\* repo_full_name.split("/", 1)
SplitOnce(s) ==
    LET at == FirstSlash(s, 1)
    IN  IF at = 0 THEN << s >>
        ELSE << SubSeq(s, 1, at - 1), SubSeq(s, at + 1, Len(s)) >>

\* repository_owner, repository_name = ... raises ValueError unless two parts
SplitOk(event) == Len(SplitOnce(event.repo.name)) = 2

\* payload = {...}; payload.update(event["payload"])
BasePayload(event, now) ==
    [ action |-> "None",
      actor |-> event.actor,
      repo |-> event.repo,
      public |-> event.public,
      backfill_source |-> "workspace_backfill",
      backfill_date |-> now ]

\* mutant of Overlay: a key of the base is never replaced
OverlayBaseWins(base, over) ==
    [ key \in (DOMAIN base) \cup (DOMAIN over) |->
        IF key \in DOMAIN base THEN base[key] ELSE over[key] ]

Overlay(base, over) ==
    [ key \in (DOMAIN base) \cup (DOMAIN over) |->
        IF key \in DOMAIN over THEN over[key] ELSE base[key] ]

Payload(event, now) ==
    IF event.has_payload THEN Overlay(BasePayload(event, now), event.payload)
    ELSE BasePayload(event, now)

\* the VALUES tuple of the INSERT
NewRow(event, now) ==
    LET parts == SplitOnce(event.repo.name)
    IN  [ event_id |-> event.id,
          event_type |-> event.type,
          actor_login |-> event.actor.login,
          repository_owner |-> parts[1],
          repository_name |-> parts[2],
          payload |-> Payload(event, now),
          created_at |-> event.created_at,
          processing_notes |-> << <<"Workspace backfill on", now>> >>,
          processed_at |-> 0 ]

RowKey(row) == << row.event_id, row.created_at >>

\* mutant of OnConflict: DO UPDATE SET overwrites the row with the new values
OnConflictOverwrite(old, new, now) ==
    [ new EXCEPT !.processed_at = now,
                 !.processing_notes = Append(old.processing_notes, UpdateMarker) ]

\* DO UPDATE SET processed_at = NOW(), processing_notes = COALESCE(..) || marker
OnConflict(old, new, now) ==
    [ old EXCEPT !.processed_at = now,
                 !.processing_notes = Append(old.processing_notes, UpdateMarker) ]

\* mutant of Upsert: a plain INSERT into a table with no unique key
UpsertAlwaysInsert(rows, new, now) == rows \cup {new}

\* INSERT ... ON CONFLICT (event_id, created_at) DO UPDATE ... on the rows `rows`
Upsert(rows, new, now) ==
    IF \E old \in rows : RowKey(old) = RowKey(new)
    THEN { IF RowKey(old) = RowKey(new) THEN OnConflict(old, new, now) ELSE old :
           old \in rows }
    ELSE rows \cup {new}

----------------------------------------------------------------------------
(* get_repo_events: the pure part *)

Min(a, b) == IF a < b THEN a ELSE b

Max(a, b) == IF a > b THEN a ELSE b

\* the records the server returns for params page=p of the feed f
GetPage(f, p) == SubSeq(f, (p - 1) * PageSize + 1, Min(p * PageSize, Len(f)))

\* mutant of ScanPage: a record below the cutoff is skipped and the loop goes on
RECURSIVE ScanPageSkipOld(_, _, _, _)
ScanPageSkipOld(page_events, j, acc, cutoff_date) ==
    IF j > Len(page_events) THEN [events |-> acc, cut |-> FALSE]
    ELSE ScanPageSkipOld(page_events, j + 1,
                         IF /\ page_events[j].created_at >= cutoff_date
                            /\ page_events[j].type \in AllowedTypes
                         THEN Append(acc, page_events[j]) ELSE acc,
                         cutoff_date)

\* mutant of ScanPage: every record inside the window is collected, whatever
\* its type
RECURSIVE ScanPageAnyType(_, _, _, _)
ScanPageAnyType(page_events, j, acc, cutoff_date) ==
    IF j > Len(page_events) THEN [events |-> acc, cut |-> FALSE]
    ELSE IF page_events[j].created_at >= cutoff_date
         THEN ScanPageAnyType(page_events, j + 1, Append(acc, page_events[j]),
                              cutoff_date)
         ELSE [events |-> acc, cut |-> TRUE]

\* mutant of ScanPage: a record below the cutoff ends the scan of its page by a
\* break, and paging goes on with the next page
RECURSIVE ScanPageBreak(_, _, _, _)
ScanPageBreak(page_events, j, acc, cutoff_date) ==
    IF j > Len(page_events) THEN [events |-> acc, cut |-> FALSE]
    ELSE IF page_events[j].created_at >= cutoff_date
         THEN ScanPageBreak(page_events, j + 1,
                            IF page_events[j].type \in AllowedTypes
                            THEN Append(acc, page_events[j]) ELSE acc,
                            cutoff_date)
         ELSE [events |-> acc, cut |-> FALSE]

\* for event in page_events: ... ; cut is TRUE when the loop left by the return
RECURSIVE ScanPage(_, _, _, _)
ScanPage(page_events, j, acc, cutoff_date) ==
    IF j > Len(page_events) THEN [events |-> acc, cut |-> FALSE]
    ELSE IF page_events[j].created_at >= cutoff_date
         THEN ScanPage(page_events, j + 1,
                       IF page_events[j].type \in AllowedTypes
                       THEN Append(acc, page_events[j]) ELSE acc,
                       cutoff_date)
         ELSE [events |-> acc, cut |-> TRUE]

\* wait_time = max(0, reset_time - int(time.time()) + 60), reset_in = reset_time - now
WaitTime(reset_in) == Max(0, reset_in + ResetMargin)

\* "X-RateLimit-Reset" in response.headers and wait_time < 3600
RetryAfter(has_reset, reset_in) == has_reset /\ WaitTime(reset_in) < MaxWait

\* seconds until the reset the server may announce
ResetIns == {-100, 30, 3539, 3540, 3600, 7200}

\* response.status_code and the X-RateLimit-Reset header, as far as the code reads
\* them; status 0 stands for no response
Response(status, has_reset, reset_in) ==
    [status |-> status, has_reset |-> has_reset, reset_in |-> reset_in]

NoResponse == Response(0, FALSE, 0)

\* the statuses of the last branch (elif response.status_code != 200)
OtherStatuses == {500}

\* mutant of MorePages: while True, the loop has no page limit
MorePagesNoCap(p) == TRUE

\* while page <= 10
MorePages(p) == p <= MaxPage

----------------------------------------------------------------------------
(* self.stats *)

ZeroStats == [repos_processed |-> 0, events_fetched |-> 0, events_inserted |-> 0,
              api_calls |-> 0, errors |-> 0]

\* n + d, kept within the counters' range of the model
Plus(n, d) == Min(n + d, MaxCount)

Inc(st, field) == [st EXCEPT ![field] = Plus(st[field], 1)]

----------------------------------------------------------------------------
(* Positions *)

\* positions inside the try of run_backfill (lines 273-279)
TryPcs == {"fetch", "rate_wait", "page_wait", "got", "insert", "commit",
           "rollback_else", "rollback_exc", "repo_end", "pace", "sleep"}

\* positions of the repository loop outside the try (lines 270-271)
LoopPcs == {"loop"}

Pcs == {"main", "lookup", "summary", "count_rows", "exited"} \cup TryPcs \cup LoopPcs

ExitCodes == {"none", "0", "1", "KeyboardInterrupt"}

repo == repositories[i]

event == events[k]

now == Now(run)

\* number of records of all feeds together
RECURSIVE SumLen(_, _)
SumLen(f, rs) ==
    IF rs = {} THEN 0
    ELSE LET r == CHOOSE x \in rs : TRUE
         IN  Len(f[r]) + SumLen(f, rs \ {r})

FeedSize(f) == SumLen(f, DOMAIN f)

----------------------------------------------------------------------------
\* the review script is not running: its variables keep these values in every
\* state of the backfill
ReviewOff ==
    /\ review_pc = "off"
    /\ env_set = TRUE
    /\ pr_input = "missing"
    /\ comments = << >>
    /\ existing_comment = -1
    /\ files = << >>
    /\ diff_content = << >>
    /\ progress_posted = FALSE
    /\ api_failed = FALSE
    /\ review_exit = "none"

Init ==
    /\ pc = "main"
    /\ run = 1
    /\ \E n \in 0..MaxRepos : repositories = RepoList(n)
    /\ \/ /\ feed \in [{repositories[j] : j \in 1..Len(repositories)} -> Feeds]
          /\ FeedSize(feed) <= MaxFeed
       \/ /\ Len(repositories) = 1
          /\ feed \in [{repositories[1]} -> LongFeeds]
    /\ i = 0 /\ page = 0 /\ events = << >> /\ k = 0
    /\ inserted_count = 0 /\ failed_count = 0
    /\ stats = ZeroStats
    /\ table = {}
    /\ txn = {}
    /\ interrupted_at = "none"
    /\ printed = FALSE
    /\ exit_code = "none"
    /\ left_by = "none"
    /\ past = "clean"
    /\ response = NoResponse
    /\ retried = FALSE
    /\ commits = 0
    /\ ReviewOff

\* the end of the process: main's finally closes the connection, which drops
\* whatever the open transaction holds
Exit(code) ==
    /\ pc' = "exited"
    /\ exit_code' = code
    /\ txn' = table
    /\ i' = 0 /\ page' = 0 /\ events' = << >> /\ k' = 0
    /\ inserted_count' = 0 /\ failed_count' = 0
    /\ left_by' = "none"
    /\ response' = NoResponse
    /\ retried' = FALSE

\* mutant of ReturnCode: main returns 0 whatever happened
ReturnCodeZero(fatal) == "0"

\* the exit status of the process: main returns 1 from its except Exception and
\* 0 otherwise; an exception of the constructor (line 320, outside the try)
\* leaves main uncaught and the interpreter exits with status 1
ReturnCode(fatal) == IF fatal THEN "1" ELSE "0"

\* main: WorkspaceEventsBackfill() raises ValueError without its configuration
MainSetup ==
    /\ pc = "main"
    /\ \E configured \in BOOLEAN :
         IF configured
         THEN /\ pc' = "lookup"
              /\ UNCHANGED << exit_code, txn, i, page, events, k, inserted_count,
                              failed_count, left_by, past, response, retried >>
         ELSE /\ Exit(ReturnCode(TRUE))
              /\ past' = "lossy"
    /\ UNCHANGED << run, repositories, feed, stats, table, interrupted_at, printed,
                    commits >>
    /\ UNCHANGED review_vars

\* run_backfill: repositories = self.get_workspace_repositories(workspace_id)
Lookup ==
    /\ pc = "lookup"
    /\ \E raised \in BOOLEAN :
         IF raised THEN Exit(ReturnCode(TRUE)) /\ past' = "lossy"
         ELSE IF repositories = << >> THEN Exit(ReturnCode(FALSE)) /\ UNCHANGED past
         ELSE /\ pc' = "loop"
              /\ i' = 1
              /\ UNCHANGED << exit_code, txn, page, events, k, inserted_count,
                              failed_count, left_by, past, response, retried >>
    /\ UNCHANGED << run, repositories, feed, stats, table, interrupted_at, printed,
                    commits >>
    /\ UNCHANGED review_vars

\* for i, repo in enumerate(repositories, 1): ... get_repo_events starts
LoopHead ==
    /\ pc = "loop"
    /\ IF i <= Len(repositories)
       THEN /\ pc' = "fetch"
            /\ page' = 1
            /\ events' = << >>
            /\ UNCHANGED i
       ELSE /\ pc' = "summary"
            /\ i' = 0
            /\ UNCHANGED << page, events >>
    /\ UNCHANGED << run, repositories, feed, k, inserted_count, failed_count, stats,
                    table, txn, interrupted_at, printed, exit_code, left_by, past,
                    response, retried, commits >>
    /\ UNCHANGED review_vars

----------------------------------------------------------------------------
(* get_repo_events *)

FetchFrame ==
    UNCHANGED << run, repositories, feed, i, k, inserted_count, failed_count, table,
                 txn, interrupted_at, printed, exit_code, commits >>

\* self.stats["events_fetched"] += len(events); return events   (both exits)
Return(evs, st, by) ==
    /\ pc' = "got"
    /\ left_by' = by
    /\ past' = IF by \in {"cutoff", "empty", "cap"} THEN past ELSE "lossy"
    /\ page' = 0
    /\ events' = evs
    /\ stats' = [st EXCEPT !.events_fetched = Plus(@, Len(evs))]

\* mutant of FetchException: get_repo_events has no except clause, the exception
\* reaches run_backfill, which counts it and continues with the next repository
FetchExceptionPropagates ==
    /\ pc = "fetch"
    /\ pc' = "loop"
    /\ i' = i + 1
    /\ page' = 0
    /\ events' = << >>
    /\ stats' = Inc(stats, "errors")
    /\ past' = "lossy"
    /\ response' = NoResponse
    /\ UNCHANGED << run, repositories, feed, k, inserted_count, failed_count, table,
                    txn, interrupted_at, printed, exit_code, left_by, retried,
                    commits >>
    /\ UNCHANGED review_vars

\* requests.get raises, or response.json() raises on a 200 that was counted:
\* except Exception -> errors += 1; break
FetchException ==
    /\ pc = "fetch"
    /\ \E answered \in BOOLEAN :
         IF answered
         THEN /\ Return(events, Inc(Inc(stats, "api_calls"), "errors"), "exception")
              /\ response' = Response(200, FALSE, 0)
         ELSE /\ Return(events, Inc(stats, "errors"), "exception")
              /\ response' = NoResponse
    /\ UNCHANGED retried
    /\ FetchFrame
    /\ UNCHANGED review_vars

\* mutant of FetchNotFound: a 404 is counted as an error
FetchNotFoundCountsError ==
    /\ pc = "fetch"
    /\ Return(events, Inc(Inc(stats, "api_calls"), "errors"), "not_found")
    /\ response' = Response(404, FALSE, 0)
    /\ UNCHANGED retried
    /\ FetchFrame
    /\ UNCHANGED review_vars

\* status 404: break
FetchNotFound ==
    /\ pc = "fetch"
    /\ Return(events, Inc(stats, "api_calls"), "not_found")
    /\ response' = Response(404, FALSE, 0)
    /\ UNCHANGED retried
    /\ FetchFrame
    /\ UNCHANGED review_vars

\* status 403: sleep and continue with the same page, or break
FetchForbidden ==
    /\ pc = "fetch"
    /\ \E has_reset \in BOOLEAN, reset_in \in ResetIns :
         /\ response' = Response(403, has_reset, IF has_reset THEN reset_in ELSE 0)
         /\ IF RetryAfter(has_reset, reset_in)
            THEN /\ pc' = "rate_wait"
                 /\ stats' = Inc(stats, "api_calls")
                 /\ retried' = TRUE
                 /\ UNCHANGED << page, events, left_by, past >>
            ELSE /\ Return(events, Inc(stats, "api_calls"), "forbidden")
                 /\ UNCHANGED retried
    /\ FetchFrame
    /\ UNCHANGED review_vars

\* any other status but 200: break
FetchOtherStatus ==
    /\ pc = "fetch"
    /\ \E status \in OtherStatuses :
         response' = Response(status, FALSE, 0)
    /\ Return(events, Inc(stats, "api_calls"), "status")
    /\ UNCHANGED retried
    /\ FetchFrame
    /\ UNCHANGED review_vars

\* status 200: an empty page breaks, a record below the cutoff returns, otherwise
\* page += 1
FetchOk ==
    /\ pc = "fetch"
    /\ LET page_events == GetPage(feed[repo], page)
           scan == ScanPage(page_events, 1, events, CutoffDate(run, backfill_days))
       IN  IF page_events = << >>
           THEN Return(events, Inc(stats, "api_calls"), "empty")
           ELSE IF scan.cut
           THEN Return(scan.events, Inc(stats, "api_calls"), "cutoff")
           ELSE /\ pc' = "page_wait"
                /\ page' = page + 1
                /\ events' = scan.events
                /\ stats' = Inc(stats, "api_calls")
                /\ UNCHANGED << left_by, past >>
    /\ response' = Response(200, FALSE, 0)
    /\ UNCHANGED retried
    /\ FetchFrame
    /\ UNCHANGED review_vars

\* mutant of RateLimitSleep: page += 1 before the continue
RateLimitSleepNextPage ==
    /\ pc = "rate_wait"
    /\ pc' = "fetch"
    /\ page' = page + 1
    /\ response' = NoResponse
    /\ UNCHANGED << events, stats, left_by, past, retried >>
    /\ FetchFrame
    /\ UNCHANGED review_vars

\* time.sleep(wait_time); continue
RateLimitSleep ==
    /\ pc = "rate_wait"
    /\ pc' = "fetch"
    /\ response' = NoResponse
    /\ UNCHANGED << page, events, stats, left_by, past, retried >>
    /\ FetchFrame
    /\ UNCHANGED review_vars

\* time.sleep(0.5); while page <= 10
PageSleep ==
    /\ pc = "page_wait"
    /\ IF MorePages(page)
       THEN /\ pc' = "fetch"
            /\ UNCHANGED << page, events, stats, left_by, past >>
       ELSE Return(events, stats, "cap")
    /\ response' = NoResponse
    /\ UNCHANGED retried
    /\ FetchFrame
    /\ UNCHANGED review_vars

----------------------------------------------------------------------------
(* backfill_repository and insert_event *)

\* a write failed: insert_event returned False or the commit raised
WriteFailed(was) == IF was = "clean" THEN "write_failed" ELSE was

WriteFrame ==
    UNCHANGED << run, repositories, feed, i, page, events, interrupted_at, printed,
                 exit_code, response, retried >>

\* mutant of GotEvents: without the early return of lines 222-224, a repository
\* with no events goes through the empty write loop to the end of the function
GotEventsNoEarlyReturn ==
    /\ pc = "got"
    /\ IF events = << >>
       THEN /\ pc' = "repo_end"
            /\ k' = 0
            /\ inserted_count' = 0
            /\ failed_count' = 0
       ELSE /\ pc' = "insert"
            /\ k' = 1
            /\ inserted_count' = 0
            /\ failed_count' = 0
    /\ left_by' = "none"
    /\ response' = NoResponse
    /\ retried' = FALSE
    /\ UNCHANGED << stats, table, txn, past, commits >>
    /\ UNCHANGED << run, repositories, feed, i, page, events, interrupted_at, printed,
                    exit_code >>
    /\ UNCHANGED review_vars

\* if not events: return     else inserted_count = 0; failed_count = 0; for ...
GotEvents ==
    /\ pc = "got"
    /\ IF events = << >>
       THEN /\ pc' = "pace"
            /\ UNCHANGED << k, inserted_count, failed_count >>
       ELSE /\ pc' = "insert"
            /\ k' = 1
            /\ inserted_count' = 0
            /\ failed_count' = 0
    /\ left_by' = "none"
    /\ response' = NoResponse
    /\ retried' = FALSE
    /\ UNCHANGED << stats, table, txn, past, commits >>
    /\ UNCHANGED << run, repositories, feed, i, page, events, interrupted_at, printed,
                    exit_code >>
    /\ UNCHANGED review_vars

\* insert_event returns True: the statement ran, events_inserted += 1,
\* inserted_count += 1
InsertOk ==
    /\ pc = "insert"
    /\ SplitOk(event)
    /\ txn' = Upsert(txn, NewRow(event, now), now)
    /\ stats' = Inc(stats, "events_inserted")
    /\ inserted_count' = inserted_count + 1
    /\ pc' = "commit"
    /\ UNCHANGED << k, failed_count, table, left_by, past, commits >>
    /\ WriteFrame
    /\ UNCHANGED review_vars

\* insert_event returns False (the split or the statement raised): errors += 1,
\* failed_count += 1
InsertFail ==
    /\ pc = "insert"
    /\ \E raised \in BOOLEAN : raised \/ ~SplitOk(event)
    /\ stats' = Inc(stats, "errors")
    /\ failed_count' = failed_count + 1
    /\ pc' = "rollback_else"
    /\ past' = WriteFailed(past)
    /\ UNCHANGED << k, inserted_count, table, txn, left_by, commits >>
    /\ WriteFrame
    /\ UNCHANGED review_vars

\* the end of one iteration of for event in events
NextEvent ==
    IF k < Len(events)
    THEN /\ pc' = "insert"
         /\ k' = k + 1
    ELSE /\ pc' = "repo_end"
         /\ k' = 0

\* self.pg_conn.commit()
CommitOk ==
    /\ pc = "commit"
    /\ table' = txn
    /\ commits' = Plus(commits, 1)
    /\ NextEvent
    /\ UNCHANGED << inserted_count, failed_count, stats, txn, left_by, past >>
    /\ WriteFrame
    /\ UNCHANGED review_vars

\* self.pg_conn.commit() raises: except Exception -> failed_count += 1
CommitFail ==
    /\ pc = "commit"
    /\ failed_count' = failed_count + 1
    /\ pc' = "rollback_exc"
    /\ past' = WriteFailed(past)
    /\ UNCHANGED << k, inserted_count, stats, table, txn, left_by, commits >>
    /\ WriteFrame
    /\ UNCHANGED review_vars

\* mutant of Rolledback: the rollback also drops what earlier records committed
RolledbackAll(committed) == {}

\* what the session sees once the open transaction is gone
Rolledback(committed) == committed

\* else: ... self.pg_conn.rollback()     (line 242, inside the try)
RollbackElse ==
    /\ pc = "rollback_else"
    /\ \E raised \in BOOLEAN :
         IF raised
         THEN /\ failed_count' = failed_count + 1
              /\ pc' = "rollback_exc"
              /\ UNCHANGED << k, txn >>
         ELSE /\ txn' = Rolledback(table)
              /\ NextEvent
              /\ UNCHANGED failed_count
    /\ UNCHANGED << inserted_count, stats, table, left_by, past, commits >>
    /\ WriteFrame
    /\ UNCHANGED review_vars

\* mutant of Continue: the repository whose processing raised is taken up again
ContinueSame(idx) == idx

\* mutant of Continue: break, no later repository is visited
Break(idx) == Len(repositories) + 1

\* the repository after this one, when its processing raised: continue
Continue(idx) == idx + 1

\* except Exception: ... self.pg_conn.rollback()     (line 246); when it raises the
\* exception leaves backfill_repository: run_backfill counts it and continues
RollbackExc ==
    /\ pc = "rollback_exc"
    /\ \E raised \in BOOLEAN :
         IF raised
         THEN /\ stats' = Inc(stats, "errors")
              /\ pc' = "loop"
              /\ i' = Continue(i)
              /\ k' = 0 /\ events' = << >>
              /\ inserted_count' = 0 /\ failed_count' = 0
         ELSE /\ NextEvent
              /\ UNCHANGED << stats, i, events, inserted_count, failed_count >>
    /\ txn' = Rolledback(table)
    /\ UNCHANGED << run, repositories, feed, page, table, interrupted_at, printed,
                    exit_code, left_by, past, response, retried, commits >>
    /\ UNCHANGED review_vars

\* self.stats["repos_processed"] += 1
RepoEnd ==
    /\ pc = "repo_end"
    /\ stats' = Inc(stats, "repos_processed")
    /\ pc' = "pace"
    /\ UNCHANGED << k, inserted_count, failed_count, table, txn, left_by, past,
                    commits >>
    /\ WriteFrame
    /\ UNCHANGED review_vars

----------------------------------------------------------------------------
(* run_backfill: pacing, summary; main *)

\* if i < len(repositories): time.sleep(2)
Pace ==
    /\ pc = "pace"
    /\ IF i < Len(repositories)
       THEN /\ pc' = "sleep"
            /\ UNCHANGED i
       ELSE /\ pc' = "loop"
            /\ i' = i + 1
    /\ events' = << >> /\ inserted_count' = 0 /\ failed_count' = 0
    /\ UNCHANGED << run, repositories, feed, page, k, stats, table, txn,
                    interrupted_at, printed, exit_code, left_by, past, response,
                    retried, commits >>
    /\ UNCHANGED review_vars

\* time.sleep(2) returns
Sleep ==
    /\ pc = "sleep"
    /\ pc' = "loop"
    /\ i' = i + 1
    /\ UNCHANGED << run, repositories, feed, page, events, k, inserted_count,
                    failed_count, stats, table, txn, interrupted_at, printed,
                    exit_code, left_by, past, response, retried, commits >>
    /\ UNCHANGED review_vars

\* print("Backfill Complete!") ... print(Errors encountered)
PrintSummary ==
    /\ pc = "summary"
    /\ printed' = TRUE
    /\ pc' = "count_rows"
    /\ UNCHANGED << run, repositories, feed, i, page, events, k, inserted_count,
                    failed_count, stats, table, txn, interrupted_at, exit_code,
                    left_by, past, response, retried, commits >>
    /\ UNCHANGED review_vars

\* SELECT COUNT(*) ...; run_backfill returns; main: finally close(); return 0,
\* or return 1 when the statement raised
CountRows ==
    /\ pc = "count_rows"
    /\ \E raised \in BOOLEAN : Exit(ReturnCode(raised))
    /\ UNCHANGED << run, repositories, feed, stats, table, interrupted_at, printed,
                    past, commits >>
    /\ UNCHANGED review_vars

\* KeyboardInterrupt: inside the try of run_backfill it is caught and breaks the
\* loop; anywhere else nothing catches it and the process ends
Interrupt ==
    /\ pc # "exited"
    /\ interrupted_at = "none"
    /\ interrupted_at' = pc
    /\ past' = "lossy"
    /\ IF pc \in TryPcs
       THEN /\ pc' = "summary"
            /\ i' = 0 /\ page' = 0 /\ events' = << >> /\ k' = 0
            /\ inserted_count' = 0 /\ failed_count' = 0
            /\ left_by' = "none"
            /\ response' = NoResponse
            /\ retried' = FALSE
            /\ UNCHANGED << txn, exit_code >>
       ELSE Exit("KeyboardInterrupt")
    /\ UNCHANGED << run, repositories, feed, stats, table, printed, commits >>
    /\ UNCHANGED review_vars

\* the operator starts the script again
RunAgain ==
    /\ pc = "exited"
    /\ run < MaxRuns
    /\ run' = run + 1
    /\ pc' = "main"
    /\ stats' = ZeroStats
    /\ interrupted_at' = "none"
    /\ printed' = FALSE
    /\ exit_code' = "none"
    /\ commits' = 0
    /\ UNCHANGED << repositories, feed, i, page, events, k, inserted_count,
                    failed_count, table, txn, left_by, past, response, retried >>
    /\ UNCHANGED review_vars

Next ==
    \/ MainSetup \/ Lookup \/ LoopHead
    \/ FetchException \/ FetchNotFound \/ FetchForbidden \/ FetchOtherStatus
    \/ FetchOk \/ RateLimitSleep \/ PageSleep
    \/ GotEvents \/ InsertOk \/ InsertFail \/ CommitOk \/ CommitFail
    \/ RollbackElse \/ RollbackExc \/ RepoEnd
    \/ Pace \/ Sleep \/ PrintSummary \/ CountRows
    \/ Interrupt \/ RunAgain

Spec == Init /\ [][Next]_vars

\* the process never stops by itself while a step is possible
LiveSpec == Spec /\ WF_vars(Next)

----------------------------------------------------------------------------
(* The pull request review script, continue_review.py *)

\* number of issue comments on the pull request when the process starts, at most
MaxComments == 1
\* number of files of the pull request at most
MaxFiles == 2

\* what a comment body is: "other" is a comment without COMMENT_MARKER, the three
\* others are the bodies the script writes, which all start with COMMENT_MARKER
Bodies == {"other", "progress", "final", "error"}

HasMarker(body) == body \in {"progress", "final", "error"}

\* the values pr_number gets from the context: absent (None), "0" by hand
\* (int gives 0), a negative number, a number that names a pull request, or a
\* string int() rejects
PrInputs == {"missing", "zero", "negative", "valid", "malformed"}

\* find_existing_comment: the first comment whose body holds the marker, else None
find_existing_comment(cs, from) ==
    LET hits == {j \in from..Len(cs) : HasMarker(cs[j])}
    IN  IF hits = {} THEN 0 ELSE CHOOSE j \in hits : \A h \in hits : j <= h

\* diff_content: one entry for every file that has a patch
Patches(fs) == SelectSeq([j \in 1..Len(fs) |-> j], LAMBDA j : fs[j])

BackfillOff ==
    /\ pc = "exited"
    /\ run = 1
    /\ repositories = << >>
    /\ feed = << >>
    /\ i = 0 /\ page = 0 /\ events = << >> /\ k = 0
    /\ inserted_count = 0 /\ failed_count = 0
    /\ stats = ZeroStats
    /\ table = {}
    /\ txn = {}
    /\ interrupted_at = "none"
    /\ printed = FALSE
    /\ exit_code = "none"
    /\ left_by = "none"
    /\ past = "clean"
    /\ response = NoResponse
    /\ retried = FALSE
    /\ commits = 0

backfill_vars == << pc, run, repositories, feed, i, page, events, k, inserted_count,
                    failed_count, stats, table, txn, interrupted_at, printed,
                    exit_code, left_by, past, response, retried, commits >>

ReviewInit ==
    /\ BackfillOff
    /\ review_pc = "validate"
    /\ env_set \in BOOLEAN
    /\ pr_input \in PrInputs
    /\ comments \in SeqsUpTo(Bodies, MaxComments)
    /\ existing_comment = -1
    /\ files \in SeqsUpTo(BOOLEAN, MaxFiles)
    /\ diff_content = << >>
    /\ progress_posted = FALSE
    /\ api_failed = FALSE
    /\ review_exit = "none"

\* sys.exit(code), or the end of the script (status 0)
ReviewExit(code) ==
    /\ review_pc' = "done"
    /\ review_exit' = code

\* the inputs and the ghosts no step of the script writes
ReviewFrame == UNCHANGED << backfill_vars, env_set, pr_input, files >>

\* lines 31-42: a required environment variable is missing: sys.exit(1)
Validate ==
    /\ review_pc = "validate"
    /\ IF env_set THEN review_pc' = "context" /\ UNCHANGED review_exit
                  ELSE ReviewExit("1")
    /\ ReviewFrame
    /\ UNCHANGED << comments, existing_comment, diff_content, progress_posted,
                    api_failed >>

\* lines 66-99: int() raising ends with status 1, a missing or zero number with
\* status 0, a number that is not positive with status 1
ParseContext ==
    /\ review_pc = "context"
    /\ CASE pr_input = "malformed" -> ReviewExit("1")
         [] pr_input \in {"missing", "zero"} -> ReviewExit("0")
         [] pr_input = "negative" -> ReviewExit("1")
         [] OTHER -> review_pc' = "connect" /\ UNCHANGED review_exit
    /\ ReviewFrame
    /\ UNCHANGED << comments, existing_comment, diff_content, progress_posted,
                    api_failed >>

\* a call to the GitHub API raised inside the try of line 210: the handler of
\* line 563 runs next
Raise ==
    /\ review_pc' = "except"
    /\ api_failed' = TRUE
    /\ UNCHANGED << comments, existing_comment, diff_content, progress_posted,
                    review_exit >>

\* lines 213-220: Github(...), get_repo, get_pull
Connect ==
    /\ review_pc = "connect"
    /\ \E raised \in BOOLEAN :
         IF raised
         THEN Raise
         ELSE /\ review_pc' = "find"
              /\ UNCHANGED << comments, existing_comment, diff_content,
                              progress_posted, api_failed, review_exit >>
    /\ ReviewFrame

\* line 231: existing_comment = find_existing_comment(pr, COMMENT_MARKER)
FindExisting ==
    /\ review_pc = "find"
    /\ \E raised \in BOOLEAN :
         IF raised
         THEN Raise
         ELSE /\ existing_comment' = find_existing_comment(comments, 1)
              /\ review_pc' = "progress"
              /\ UNCHANGED << comments, diff_content, progress_posted, api_failed,
                              review_exit >>
    /\ ReviewFrame

\* existing_comment.edit(body): the comment's body is replaced
Edit(body) ==
    /\ comments' = [comments EXCEPT ![existing_comment] = body]
    /\ UNCHANGED existing_comment

\* pr.create_issue_comment(body): a new comment after the others
Create(body) == Append(comments, body)

\* lines 267-272: the progress body replaces the existing comment, or is posted
\* as a new comment which existing_comment then names
PostProgress ==
    /\ review_pc = "progress"
    /\ \E raised \in BOOLEAN :
         IF raised
         THEN Raise
         ELSE /\ IF existing_comment >= 1
                 THEN Edit("progress")
                 ELSE /\ comments' = Create("progress")
                      /\ existing_comment' = Len(comments) + 1
              /\ progress_posted' = TRUE
              /\ review_pc' = "files"
              /\ UNCHANGED << diff_content, api_failed, review_exit >>
    /\ ReviewFrame

\* lines 275-310: the rules are loaded and the files of the pull request listed;
\* a file enters diff_content when it has a patch
GetFiles ==
    /\ review_pc = "files"
    /\ \E raised \in BOOLEAN :
         IF raised
         THEN Raise
         ELSE /\ diff_content' = Patches(files)
              /\ review_pc' = "diff"
              /\ UNCHANGED << comments, existing_comment, progress_posted,
                              api_failed, review_exit >>
    /\ ReviewFrame

\* lines 312-314: nothing to review: sys.exit(0).  SystemExit is not an
\* Exception, so the handler of line 563 does not run and the process ends
CheckDiff ==
    /\ review_pc = "diff"
    /\ IF diff_content = << >>
       THEN ReviewExit("0")
       ELSE review_pc' = "cli" /\ UNCHANGED review_exit
    /\ ReviewFrame
    /\ UNCHANGED << comments, existing_comment, diff_content, progress_posted,
                    api_failed >>

\* lines 316-481: the prompt is written to a temporary file (which may raise) and
\* the CLI is run; whatever the CLI does, its own try leaves a review_text
RunCli ==
    /\ review_pc = "cli"
    /\ \E written \in BOOLEAN :
         review_pc' = IF written THEN "final" ELSE "except"
    /\ ReviewFrame
    /\ UNCHANGED << comments, existing_comment, diff_content, progress_posted,
                    api_failed, review_exit >>

\* lines 553-561 and 597: the final body replaces the comment (or is posted anew
\* when existing_comment is None) and the script ends
FinalUpdate ==
    /\ review_pc = "final"
    /\ \E raised \in BOOLEAN :
         IF raised
         THEN Raise
         ELSE /\ IF existing_comment >= 1
                 THEN Edit("final")
                 ELSE comments' = Create("final") /\ UNCHANGED existing_comment
              /\ ReviewExit("0")
              /\ UNCHANGED << diff_content, progress_posted, api_failed >>
    /\ ReviewFrame

\* lines 563-595: the error body replaces the comment when existing_comment is
\* bound and not None, else it is posted as a new comment; when that raises the
\* bare except only prints; sys.exit(1) either way
ErrorUpdate ==
    /\ review_pc = "except"
    /\ \E raised \in BOOLEAN :
         IF raised
         THEN /\ api_failed' = TRUE
              /\ UNCHANGED << comments, existing_comment >>
         ELSE /\ IF existing_comment >= 1
                 THEN Edit("error")
                 ELSE comments' = Create("error") /\ UNCHANGED existing_comment
              /\ UNCHANGED api_failed
    /\ ReviewExit("1")
    /\ ReviewFrame
    /\ UNCHANGED << diff_content, progress_posted >>

ReviewNext ==
    \/ Validate \/ ParseContext \/ Connect \/ FindExisting \/ PostProgress
    \/ GetFiles \/ CheckDiff \/ RunCli \/ FinalUpdate \/ ErrorUpdate

ReviewSpec == ReviewInit /\ [][ReviewNext]_vars

ReviewTypeOK ==
    /\ review_pc \in {"off", "validate", "context", "connect", "find", "progress",
                      "files", "diff", "cli", "final", "except", "done"}
    /\ env_set \in BOOLEAN
    /\ pr_input \in PrInputs
    /\ comments \in SeqsUpTo(Bodies, MaxComments + 1)
    /\ existing_comment \in -1..Len(comments)
    /\ files \in SeqsUpTo(BOOLEAN, MaxFiles)
    /\ progress_posted \in BOOLEAN
    /\ api_failed \in BOOLEAN
    /\ review_exit \in {"none", "0", "1"}

TypeOK ==
    /\ pc \in Pcs
    /\ run \in 1..MaxRuns
    /\ exit_code \in ExitCodes
    /\ printed \in BOOLEAN
    /\ past \in {"clean", "write_failed", "lossy"}
    /\ left_by \in {"none", "cutoff", "empty", "cap", "not_found", "forbidden",
                    "status", "exception"}
    /\ \A f \in DOMAIN stats : stats[f] \in 0..MaxCount
    /\ response.status \in {0, 200, 403, 404} \cup OtherStatuses
    /\ retried \in BOOLEAN
    /\ commits \in 0..MaxCount

----------------------------------------------------------------------------
(* Properties *)

\* a row without its metadata columns (processed_at, processing_notes)
Frozen(row) == [row EXCEPT !.processed_at = 0, !.processing_notes = << >>]

FrozenRows(rows) == {Frozen(row) : row \in rows}

Keys(rows) == {RowKey(row) : row \in rows}

UniqueKeys(rows) == \A r1, r2 \in rows : RowKey(r1) = RowKey(r2) => r1 = r2

\* C1: after any sequence of insert_event writes and commits, in one run or over
\* several runs, the cache table holds at most one row for each
\* (event_id, created_at) key; so does the view of the open transaction.
C1_OneRowPerKey == UniqueKeys(table) /\ UniqueKeys(txn)

\* C1 witness: a key written three times or more is stored in one committed row.
C1_Witness ==
    /\ \E row \in table : Len(row.processing_notes) >= 3
    /\ Cardinality(table) = 1

\* C2: a write whose key already exists changes only processed_at and
\* processing_notes of the existing row: the notes get the marker appended,
\* processed_at becomes the time of the write, every other column of that row and
\* every other row stay as they were, whatever values the second write carries.
C2_ConflictKeepsColumns ==
    [][ (pc = "insert" /\ pc' = "commit") =>
          \A old \in txn :
            IF RowKey(old) = << event.id, event.created_at >>
            THEN \E new \in txn' :
                   /\ Frozen(new) = Frozen(old)
                   /\ new.processing_notes =
                        Append(old.processing_notes, UpdateMarker)
                   /\ new.processed_at = now
                   /\ txn' = (txn \ {old}) \cup {new}
            ELSE old \in txn' ]_vars

\* C2 witness: EvTwin was written onto the row that EvStar created; the row still
\* carries EvStar's columns and the marker.
C2_Witness ==
    /\ pc = "commit"
    /\ event = EvTwin
    /\ \E row \in txn :
         /\ Frozen(row) = Frozen(NewRow(EvStar, Now(1)))
         /\ row.processing_notes[Len(row.processing_notes)] = UpdateMarker

\* C6: a committed row is never lost: every row of the table is, after every
\* step (a rollback, a failed write, a failing repository, an interrupt, the end
\* of the process, a later run), still in the table with the same key and the
\* same columns but the metadata.
C6_CommittedRowsStay ==
    [][ \A row \in table : \E kept \in table' : Frozen(kept) = Frozen(row) ]_vars

\* C6 witness: the first record of a repository was committed, the write of the
\* second failed and was rolled back, and the first row is in the table.
C6_Witness ==
    /\ pc = "repo_end"
    /\ events = << EvStar, EvBad >>
    /\ inserted_count = 1 /\ failed_count = 1
    /\ \E row \in table : Frozen(row) = Frozen(NewRow(EvStar, now))

\* C3 as claimed: for any repository list and feed, a second run against the same
\* feed leaves the set of row keys and every non-metadata column as they were
\* after the first run.  Stated for the runs after a process that ran
\* run_backfill to its end with every request answered 200.
C3_RerunChangesNoRow ==
    [][ (run >= 2 /\ run' = run /\ past # "lossy") =>
          FrozenRows(table') = FrozenRows(table) ]_vars

\* C3 as amended: a later run never removes a row, never changes a non-metadata
\* column of a row and never stores a second row for a key; and when so far every
\* request was answered 200, every write was committed and every process ran to
\* its end, it leaves the keys and the non-metadata columns of all rows as they
\* were (it changes processed_at and processing_notes only).
C3_RerunOnlyAnnotates ==
    [][ (run >= 2 /\ run' = run) =>
          /\ \A row \in table : \E kept \in table' : Frozen(kept) = Frozen(row)
          /\ UniqueKeys(table')
          /\ (past = "clean" => FrozenRows(table') = FrozenRows(table)) ]_vars

\* C3 witness: the second run ended after a clean history and left its marker on
\* a row of the first run.
C3_Witness ==
    /\ run = 2 /\ pc = "exited" /\ exit_code = "0" /\ printed
    /\ past = "clean"
    /\ \E row \in table :
         /\ row.payload.backfill_date = Now(1)
         /\ row.processed_at = Now(2)
         /\ Len(row.processing_notes) >= 2

\* position of the first record of f below the cutoff, 0 when there is none
RECURSIVE FirstOld(_, _, _)
FirstOld(f, j, cutoff_date) ==
    IF j > Len(f) THEN 0
    ELSE IF f[j].created_at < cutoff_date THEN j
    ELSE FirstOld(f, j + 1, cutoff_date)

IsAllowed(e) == e.type \in AllowedTypes

\* get_repo_events has returned, every request of it was answered 200, and the
\* N-th record of the feed is the first one below the cutoff
CutoffCase(N) ==
    /\ pc = "got"
    /\ left_by \in {"cutoff", "empty", "cap"}
    /\ N = FirstOld(feed[repo], 1, CutoffDate(run, backfill_days))
    /\ N > 0

C5_FailureMovesToNextRepository ==
    [][ interrupted_at' = "none" =>
          /\ (pc \in TryPcs /\ pc' \notin TryPcs) => (pc' = "loop" /\ i' = i + 1)
          /\ (pc = "loop" /\ i <= Len(repositories)) => (pc' = "fetch" /\ i' = i)
          /\ (pc = "loop" /\ pc' # "fetch") => i = Len(repositories) + 1 ]_vars

\* C5 witness: the only request of the first repository raised a transport
\* exception, and the second repository is being fetched.
C5_Witness ==
    /\ pc = "fetch" /\ i = 2
    /\ stats.errors = 1
    /\ stats.api_calls = 0

\* number of "/" in s
RECURSIVE SlashCount(_, _)
SlashCount(s, j) ==
    IF j > Len(s) THEN 0
    ELSE (IF s[j] = "/" THEN 1 ELSE 0) + SlashCount(s, j + 1)

Slashes(e) == SlashCount(e.repo.name, 1)

\* the write step rejects the event: no row, errors += 1
Rejected ==
    /\ pc' = "rollback_else"
    /\ txn' = txn /\ table' = table
    /\ stats.errors < MaxCount => stats'.errors = stats.errors + 1
    /\ stats'.events_inserted = stats.events_inserted

MidWorkPcs == {"fetch", "insert", "commit", "rollback_else", "rollback_exc"}

\* C8 as claimed: an interrupt takes effect only between repositories: it never
\* cuts a page fetch or a record write short, and wherever it is honoured the
\* current record's database work has ended in a commit or a rollback, so that
\* the open transaction holds nothing the table does not.
C8_InterruptOnlyBetweenRepositories ==
    interrupted_at # "none" =>
        /\ interrupted_at \notin MidWorkPcs
        /\ txn = table

\* C9 as claimed: after an interrupt that arrives while the repository loop is
\* running no further repository is attempted and the run still reaches the
\* summary: the process does not end without having printed it.  (That the rows
\* committed before stay in the store is C6_CommittedRowsStay.)
C9_InterruptStillSummarises ==
    interrupted_at \in (TryPcs \cup LoopPcs) =>
        /\ pc \notin (TryPcs \cup LoopPcs)
        /\ pc = "exited" => printed

\* positions inside the paging loop of get_repo_events
FetchPcs == {"fetch", "rate_wait", "page_wait"}

\* C10 as claimed: for every behaviour of the upstream feed the paging loop of
\* one repository eventually returns.
C10_FetchReturns == (pc \in FetchPcs) ~> (pc \notin FetchPcs)

\* C11: an event whose type is not WatchEvent, ForkEvent, PullRequestEvent,
\* IssuesEvent or StarEvent is never in the list get_repo_events builds and
\* returns, and no row of such a type is ever written, committed or not, even
\* when the event lies inside the cutoff window.
C11_OnlyAllowedTypesKept ==
    /\ \A j \in 1..Len(events) : events[j].type \in AllowedTypes
    /\ \A row \in table \cup txn : row.event_type \in AllowedTypes

\* C11 witness: the feed held a PushEvent inside the window ahead of a collected
\* record; the repository's write loop ended with the collected record stored and
\* no row for the PushEvent.
C11_Witness ==
    /\ pc = "repo_end"
    /\ feed[repo] = << EvPush, EvStar >>
    /\ EvPush.created_at >= CutoffDate(run, backfill_days)
    /\ events = << EvStar >>
    /\ \E row \in table : row.event_id = EvStar.id
    /\ \A row \in table : row.event_id # EvPush.id

\* C12: for one repository get_repo_events never requests a page numbered above
\* 10 and never examines a record beyond the first 10 pages: the list it builds
\* holds at most 10 pages' worth of records, and the list it returns is made of
\* the collected records among the first n records of the feed for some n within
\* the first 10 pages, however many pages the feed has.
C12_AtMostTenPages ==
    /\ pc = "fetch" => page \in 1..MaxPage
    /\ Len(events) <= MaxPage * PageSize
    /\ pc = "got" =>
         \E n \in 0..(MaxPage * PageSize) :
             events = SelectSeq(SubSeq(feed[repo], 1, Min(n, Len(feed[repo]))),
                                IsAllowed)

\* C12 witness: a feed of more than 10 pages, every record collected and inside
\* the window, was left at the page limit with exactly 10 pages' worth of events.
C12_Witness ==
    /\ pc = "got"
    /\ left_by = "cap"
    /\ Len(feed[repo]) > MaxPage * PageSize
    /\ \A j \in 1..Len(feed[repo]) :
         /\ IsAllowed(feed[repo][j])
         /\ feed[repo][j].created_at >= CutoffDate(run, backfill_days)
    /\ Len(events) = MaxPage * PageSize

\* C13: when a page is answered 403 with a reset header whose wait is within the
\* bound, the repository is not abandoned: get_repo_events waits, and the next
\* request is for the same page of the same repository, with the events
\* collected so far kept (unless the operator interrupts).
C13_RetriesSamePage ==
    [][ interrupted_at' = interrupted_at =>
          /\ ( /\ pc = "fetch"
               /\ response'.status = 403
               /\ response'.has_reset
               /\ WaitTime(response'.reset_in) < MaxWait )
             => (pc' = "rate_wait" /\ page' = page /\ events' = events /\ i' = i)
          /\ pc = "rate_wait"
             => (pc' = "fetch" /\ page' = page /\ events' = events /\ i' = i) ]_vars

\* C13 witness: page 2 was answered 403 with a reset 30 seconds ahead; the wait
\* is under way with page still 2 and the event of page 1 kept.
C13_Witness ==
    /\ pc = "rate_wait"
    /\ response = Response(403, TRUE, 30)
    /\ page = 2
    /\ events = << EvStar >>
    /\ stats.api_calls = 2

\* the page on which the server puts the N-th record of a feed
PageOf(N) == (N + PageSize - 1) \div PageSize

\* C14: paging stops at the page that holds the first record below the cutoff.
\* When every request of the call was answered 200 and that record is the N-th
\* of the feed, on page k <= 10, get_repo_events returns from the request for
\* page k (no later page is requested), the list is the collected records among
\* 1..N-1 in feed order, and k API calls were recorded for the repository
\* (checked on the first repository of a run, whose count starts at 0).
C14_StopsAtCutoffPage ==
    [][ ( /\ pc \in FetchPcs /\ pc' = "got"
          /\ left_by' \in {"cutoff", "empty", "cap"}
          /\ ~retried' ) =>
          LET N == FirstOld(feed[repo], 1, CutoffDate(run, backfill_days))
          IN  (N > 0 /\ PageOf(N) <= MaxPage) =>
                /\ left_by' = "cutoff"
                /\ pc = "fetch"
                /\ page = PageOf(N)
                /\ events' = SelectSeq(SubSeq(feed[repo], 1, N - 1), IsAllowed)
                /\ i = 1 => stats'.api_calls = PageOf(N) ]_vars

\* C14 witness: page 1 held a collected record and page 2 the first record below
\* the cutoff; the first repository's call returned with 1 event retained and 2
\* API calls recorded.
C14_Witness ==
    /\ pc = "got" /\ i = 1
    /\ left_by = "cutoff" /\ ~retried
    /\ feed[repo] = << EvStar, EvOld >>
    /\ PageOf(2) = 2
    /\ events = << EvStar >>
    /\ stats.api_calls = 2

\* C15 as claimed: every run whose setup succeeded prints the run summary.  In
\* its finite form: a process that got past the constructor and ends normally,
\* with exit code 0 and without an interrupt, has printed the summary.
C15_NormalEndHasSummary ==
    [][ ( /\ pc \notin {"main", "exited"}
          /\ pc' = "exited"
          /\ exit_code' = "0"
          /\ interrupted_at' = "none" ) => printed' ]_vars

\* C16: the exit code is 0 on normal completion, the case of an empty directory
\* lookup included, and 1 on a fatal top-level error.  Unless the operator
\* interrupts, a process ends only at the top level (the constructor, the
\* directory lookup, the end of run_backfill), never from inside the repository
\* loop, and its code is 0 or 1: 1 when the constructor raised, 1 when the
\* lookup ended the run although repositories exist (it raised); a lookup that
\* ends the run with code 0 found no repositories.
C16_ExitCodes ==
    [][ (pc # "exited" /\ pc' = "exited" /\ interrupted_at' = "none") =>
          /\ exit_code' \in {"0", "1"}
          /\ pc \in {"main", "lookup", "count_rows"}
          /\ pc = "main" => exit_code' = "1"
          /\ (pc = "lookup" /\ repositories # << >>) => exit_code' = "1"
          /\ (pc = "lookup" /\ exit_code' = "0") => repositories = << >> ]_vars

\* C16 witness: the directory lookup returned no repositories and the process
\* ended with exit code 0.
C16_Witness ==
    /\ pc = "exited"
    /\ exit_code = "0"
    /\ repositories = << >>
    /\ interrupted_at = "none"

\* C17 as claimed: on a 403 the same page is retried exactly when a reset header
\* is present and the wait is at most 1 hour (3600 s); otherwise paging stops.
\* The wait is taken as the time the code would sleep, wait_time.
C17_RetriesUpToOneHour ==
    [][ ( /\ pc = "fetch"
          /\ response'.status = 403
          /\ interrupted_at' = interrupted_at ) =>
          ( pc' = "rate_wait" <=>
              (response'.has_reset /\ WaitTime(response'.reset_in) <= MaxWait) ) ]_vars

\* C18 as claimed: every page fetch attempt increments api_calls by exactly one,
\* whatever its outcome: a 200, a 404, a 403 (each retry included), another
\* status, or a transport-level exception.
C18_EveryAttemptCounted ==
    [][ ( /\ pc = "fetch"
          /\ interrupted_at' = interrupted_at
          /\ stats.api_calls < MaxCount ) =>
          stats'.api_calls = stats.api_calls + 1 ]_vars

\* positions between insert_event's statement and the end of the commit or
\* rollback that closes the record's write
InWritePcs == {"commit", "rollback_else", "rollback_exc"}

\* C19 as claimed: every write attempt is counted in exactly one of the two
\* counters, so that events_inserted equals the number of writes committed in
\* this run; checked whenever no write is under way and no interrupt has cut
\* one short.
C19_InsertedEqualsCommitted ==
    (interrupted_at = "none" /\ pc \notin InWritePcs) =>
        stats.events_inserted = commits

\* C20: a transport-level exception during a page request (no response arrives)
\* ends paging for that repository only: it does not leave get_repo_events, which
\* returns the events collected from the earlier pages and adds them to
\* events_fetched; errors grows by exactly one and nothing else is counted; the
\* returned events are then written, from the first one on.
C20_ExceptionEndsPagingOnly ==
    [][ interrupted_at' = interrupted_at =>
          /\ (pc = "fetch" /\ response'.status = 0) =>
               /\ pc' = "got" /\ i' = i
               /\ events' = events
               /\ stats.errors < MaxCount => stats'.errors = stats.errors + 1
               /\ stats'.events_fetched = Plus(stats.events_fetched, Len(events))
               /\ stats'.api_calls = stats.api_calls
               /\ stats'.events_inserted = stats.events_inserted
               /\ stats'.repos_processed = stats.repos_processed
          /\ (pc = "got" /\ left_by = "exception" /\ events # << >>) =>
               (pc' = "insert" /\ k' = 1 /\ events' = events /\ i' = i) ]_vars

\* C20 witness: page 1 of the first repository was answered and gave one event,
\* the request for page 2 raised, and the event was written and committed.
C20_Witness ==
    /\ pc = "repo_end" /\ i = 1
    /\ events = << EvStar >>
    /\ stats.api_calls = 1
    /\ stats.errors = 1
    /\ inserted_count = 1 /\ failed_count = 0
    /\ \E row \in table : row.event_id = EvStar.id

\* the request of this step was answered 404 or another status but 200 and 403
SoftStop == pc = "fetch" /\ response'.status \notin {0, 200, 403}

\* C21 as claimed: a 404 and any other non-200, non-403 answer end paging, the
\* events collected so far are returned, and of the counters only api_calls
\* changes.
C21_SoftStopChangesApiCallsOnly ==
    [][ (SoftStop /\ interrupted_at' = interrupted_at) =>
          /\ pc' = "got" /\ events' = events
          /\ stats' = [stats EXCEPT !.api_calls = Plus(@, 1)] ]_vars

\* C21 as amended: a 404 and any other non-200, non-403 answer end paging for
\* the repository; the events collected from earlier pages are returned; errors
\* is not incremented; api_calls grows by one and events_fetched by the number
\* of events returned; no other counter changes.
C21_SoftStopIsNoError ==
    [][ (SoftStop /\ interrupted_at' = interrupted_at) =>
          /\ pc' = "got" /\ events' = events /\ i' = i
          /\ stats' = [stats EXCEPT
                         !.api_calls = Plus(@, 1),
                         !.events_fetched = Plus(@, Len(events))] ]_vars

\* C21 witness: page 1 gave one event and page 2 was answered 404; the event is
\* returned and no error is counted.
C21_Witness ==
    /\ pc = "got" /\ i = 1
    /\ response.status = 404
    /\ events = << EvStar >>
    /\ stats = [ZeroStats EXCEPT !.api_calls = 2, !.events_fetched = 1]

\* C22: repositories are processed one at a time in the order of the directory
\* lookup, each at most once per run: the index only moves from i to i + 1, and
\* every arrival at the head of the loop has moved it.  Within a repository the
\* requested pages start at 1, go up by one after a page that was scanned to its
\* end, and repeat only after a rate-limit wait.  The first request for a
\* repository is made from the head of the loop, when no event of an earlier
\* repository is being written and the transaction holds no open write.
C22_InOrderOneAtATime ==
    [][ run' = run =>
          /\ i' \in {i, i + 1} \/ (i' = 0 /\ pc' \in {"summary", "exited"})
          /\ (pc' = "loop" /\ pc # "loop") => i' = i + 1
          /\ (pc = "loop" /\ pc' = "fetch") =>
               (i' = i /\ page' = 1 /\ k = 0 /\ events = << >> /\ txn = table)
          /\ (pc' = "fetch" /\ pc # "fetch") => pc \in {"loop", "rate_wait", "page_wait"}
          /\ (pc = "fetch" /\ pc' = "page_wait") => (page' = page + 1 /\ i' = i)
          /\ (pc = "fetch" /\ pc' = "rate_wait") => (page' = page /\ i' = i)
          /\ (pc \in {"rate_wait", "page_wait"} /\ pc' = "fetch") =>
               (page' = page /\ i' = i) ]_vars

\* C22 witness: the first repository's event was written and committed, and page
\* 2 of the second repository is about to be requested.
C22_Witness ==
    /\ pc = "fetch"
    /\ i = 2 /\ page = 2
    /\ commits = 1
    /\ table # {}

\* C23 as claimed: each event returned by get_repo_events gets exactly one write
\* attempt, counted once as inserted or once as failed, so that at the end of a
\* repository whose write loop completed inserted_count + failed_count equals
\* the number of events fetched for it.
C23_CountsAddUpToEvents ==
    pc = "repo_end" => inserted_count + failed_count = Len(events)

\* C24 as claimed: the pacing delay is applied after every repository but the
\* last, whatever the repository's outcome: the loop moves on from a repository
\* that is not the last one only out of the delay.
C24_DelayAfterEveryRepository ==
    [][ ( /\ pc' = "loop"
          /\ i' = i + 1
          /\ i >= 1 /\ i < Len(repositories) ) => pc = "sleep" ]_vars

\* the keys of the payload insert_event builds before the upstream payload is
\* laid over it
BaseKeys == {"action", "actor", "repo", "public", "backfill_source", "backfill_date"}

\* the upstream payload mapping of a raw event, empty when it has none
Upstream(e) == IF e.has_payload THEN e.payload ELSE NoPayload

\* C25: the payload stored for a new row is the provenance fields and selected
\* raw fields (action, actor, repo, public, backfill_source, backfill_date)
\* overlaid by the raw event's own payload: its keys are those of either side, a
\* key of the upstream payload carries the upstream value even when the base has
\* the key too, and a key of the base alone carries the base value.
C25_UpstreamPayloadWins ==
    [][ ( /\ pc = "insert" /\ pc' = "commit"
          /\ << event.id, event.created_at >> \notin Keys(txn) ) =>
          \E row \in txn' :
            /\ RowKey(row) = << event.id, event.created_at >>
            /\ DOMAIN row.payload = BaseKeys \cup DOMAIN Upstream(event)
            /\ \A key \in DOMAIN Upstream(event) :
                 row.payload[key] = Upstream(event)[key]
            /\ \A key \in BaseKeys \ DOMAIN Upstream(event) :
                 row.payload[key] = BasePayload(event, now)[key] ]_vars

\* C25 witness: the row of EvStar is committed; its payload has the upstream
\* action in place of the base's and keeps the provenance fields.
C25_Witness ==
    \E row \in table :
        /\ row.event_type = EvStar.type
        /\ "action" \in BaseKeys \cap DOMAIN EvStar.payload
        /\ row.payload.action = "started"
        /\ BasePayload(EvStar, now).action # "started"
        /\ row.payload.backfill_source = "workspace_backfill"

\* writes of this process counted in events_inserted whose commit failed; they
\* are among the failed writes
FailedCommits == stats.events_inserted - commits

\* C26 as claimed: events_inserted plus the number of failed writes never
\* exceeds events_fetched.  Checked with the failed commits alone as failed
\* writes, whenever no write is under way, no interrupt has cut one short and
\* events_fetched is within the counters' range of the model.
C26_InsertedPlusFailedWithinFetched ==
    ( /\ interrupted_at = "none"
      /\ pc \notin InWritePcs
      /\ stats.events_fetched < MaxCount ) =>
        stats.events_inserted + FailedCommits <= stats.events_fetched

\* C27: repos_processed is incremented exactly once for each repository whose
\* fetch returned at least one event and whose write loop ran to its end, even
\* if every write failed, and never otherwise: within a run it changes only at
\* the end of backfill_repository, by one, with a non-empty list of which every
\* event was attempted; a repository with no events or whose processing raised
\* does not get there.  Hence it never exceeds the number of repositories
\* attempted so far.
C27_ReposProcessedCountsWrittenRepositories ==
    [][ run' = run =>
          /\ stats'.repos_processed # stats.repos_processed =>
               /\ pc = "repo_end" /\ pc' = "pace"
               /\ stats'.repos_processed = stats.repos_processed + 1
               /\ events # << >>
               /\ inserted_count + failed_count >= Len(events)
          /\ (pc = "repo_end" /\ interrupted_at' = interrupted_at) =>
               stats'.repos_processed = stats.repos_processed + 1
          /\ (pc = "got" /\ events = << >> /\ interrupted_at' = interrupted_at) =>
               pc' = "pace"
          /\ stats'.repos_processed <= Len(repositories)
          /\ i' >= 1 => stats'.repos_processed <= i' ]_vars

\* C27 witness: the first repository returned no events and raised nothing, the
\* only write of the second one failed; one repository is counted as processed
\* although two completed without raising.
C27_Witness ==
    /\ pc = "pace" /\ i = 2
    /\ feed[repositories[1]] = << >>
    /\ feed[repositories[2]] = << EvBad >>
    /\ stats.repos_processed = 1
    /\ stats.events_inserted = 0
    /\ stats.errors = 1

\* C28: a run of the review script that has posted or edited the progress comment
\* replaces that same comment with the final body or the error body before the
\* process ends, whenever no call to the GitHub API raised; the no-diff path
\* included.
C28_ProgressCommentReplaced ==
    (review_pc = "done" /\ progress_posted /\ ~api_failed) =>
        comments[existing_comment] \in {"final", "error"}

====
